---- MODULE Spec2Model ----
(***************************************************************************)
(* A model of systole's plotting front end (plots/plot_evoked.py and       *)
(* plots/utils.py) and of the collaborators it and the detection tests     *)
(* call (peak detection, heart-rate conversion, artefact classification,   *)
(* epoching).  Every function is a call that runs from its first statement *)
(* to a return or a raise; `log' records, in order, the collaborators the  *)
(* call has invoked so far.                                                *)
(***************************************************************************)
EXTENDS Integers, Sequences, FiniteSets, TLC

VARIABLES
    fn,     \* the function being called
    args,   \* its arguments (and the environment the call runs in)
    loc,    \* its local variables
    pc,     \* the statement the call is at
    log,    \* the collaborators invoked so far, in order
    ret     \* how the call ended: nothing yet, a return value or a raise

vars == <<fn, args, loc, pc, log, ret>>

(***************************************************************************)
(* Python values                                                           *)
(***************************************************************************)
None == [tag |-> "None"]
IsNone(x) == x.tag = "None"
\* a numpy array: ndim 1 holds a sequence of samples, ndim 2 a sequence of rows
\* its samples are the rationals data[i] / den (den = 0: every sample is NaN)
ArrQ(n, d, q) == [tag |-> "array", ndim |-> n, data |-> d, den |-> q]
Arr(n, d) == ArrQ(n, d, 1)
\* a python list: of numbers (ndim 1), of lists of numbers (ndim 2), or of arrays
PyList(n, d) == [tag |-> "list", ndim |-> n, data |-> d, den |-> 1]
PyStr(s) == [tag |-> "str", data |-> s]
NpAsarray(x) == ArrQ(x.ndim, x.data, x.den)

NoReturn == [kind |-> "none"]
Raise(e) == [kind |-> "raise", exc |-> e]
Return(v) == [kind |-> "return", value |-> v]

Max(a, b) == IF a >= b THEN a ELSE b
RECURSIVE SumSeq(_)
SumSeq(s) == IF s = <<>> THEN 0 ELSE Head(s) + SumSeq(Tail(s))
Range(s) == {s[i] : i \in DOMAIN s}

(***************************************************************************)
(* Strings that the code converts are sequences of characters              *)
(***************************************************************************)
UpperChars == <<"A", "B", "C", "D", "E", "F", "G", "H", "I", "J", "K", "L", "M",
                "N", "O", "P", "Q", "R", "S", "T", "U", "V", "W", "X", "Y", "Z">>
LowerChars == <<"a", "b", "c", "d", "e", "f", "g", "h", "i", "j", "k", "l", "m",
                "n", "o", "p", "q", "r", "s", "t", "u", "v", "w", "x", "y", "z">>
LowerChar(c) == IF \E i \in DOMAIN UpperChars : UpperChars[i] = c
                THEN LowerChars[CHOOSE i \in DOMAIN UpperChars : UpperChars[i] = c]
                ELSE c
\* str.lower()
StrLower(s) == [i \in DOMAIN s |-> LowerChar(s[i])]

S_mpl == <<"m", "p", "l">>
S_bokeh == <<"b", "o", "k", "e", "h">>
S_matplotlib == <<"m", "a", "t", "p", "l", "o", "t", "l", "i", "b">>

(***************************************************************************)
(* IEEE-754 binary64 arithmetic on non-negative values, as far as          *)
(* np.arange needs it.  A 54-bit natural is a pair <<hi, lo>> of 27-bit    *)
(* limbs; a double is a mantissa m with 2^52 <= m < 2^53 (or 0) and an     *)
(* exponent e, standing for m * 2^e.                                       *)
(***************************************************************************)
LimbBits == 27
MantBits == 53
Limb == 2^LimbBits
W0 == <<0, 0>>
WGeq(a, b) == (a[1] > b[1]) \/ (a[1] = b[1] /\ a[2] >= b[2])
WSub(a, b) == IF a[2] >= b[2] THEN <<a[1] - b[1], a[2] - b[2]>>
              ELSE <<a[1] - b[1] - 1, a[2] + Limb - b[2]>>
WAdd(a, b) == <<a[1] + b[1] + ((a[2] + b[2]) \div Limb), (a[2] + b[2]) % Limb>>
WDbl(a) == WAdd(a, a)
WInc(a) == WAdd(a, <<0, 1>>)
WOdd(a) == a[2] % 2 = 1
WNormal(a) == a[1] >= 2^(MantBits - 1 - LimbBits)
\* a = q * 2^d + rem, for 0 <= d <= 53
WShr(a, d) == IF d = 0 THEN [q |-> a, rem |-> W0]
              ELSE IF d < LimbBits
              THEN [q |-> <<a[1] \div 2^d,
                            (a[1] % 2^d) * 2^(LimbBits - d) + a[2] \div 2^d>>,
                    rem |-> <<0, a[2] % 2^d>>]
              ELSE [q |-> <<0, a[1] \div 2^(d - LimbBits)>>,
                    rem |-> <<a[1] % 2^(d - LimbBits), a[2]>>]
\* 2^(d-1) as a pair, for 1 <= d <= 53
WHalf(d) == IF d <= LimbBits THEN <<0, 2^(d - 1)>> ELSE <<2^(d - 1 - LimbBits), 0>>

FZero == [m |-> W0, e |-> 0]
\* round to nearest, ties to even: m is the mantissa cut to 53 bits, `up' says
\* that what was cut off is more than half a unit, `tie' that it is exactly half
FRound(m, e, up, tie) ==
    LET r == IF up \/ (tie /\ WOdd(m)) THEN WInc(m) ELSE m
    IN IF r[1] >= 2^(MantBits - LimbBits) THEN [m |-> WShr(r, 1).q, e |-> e + 1]
       ELSE [m |-> r, e |-> e]

RECURSIVE FromRatioBits(_, _, _, _)
FromRatioBits(m, r, d, e) ==
    IF WNormal(m) THEN FRound(m, e, 2 * r > d, 2 * r = d)
    ELSE FromRatioBits(WAdd(WDbl(m), <<0, IF 2 * r >= d THEN 1 ELSE 0>>),
                       IF 2 * r >= d THEN 2 * r - d ELSE 2 * r, d, e - 1)
\* int / int (true division): the double nearest to n / d, for n >= 0 and d > 0
FromRatio(n, d) ==
    IF n = 0 THEN FZero ELSE FromRatioBits(<<0, n \div d>>, n % d, d, 0)

\* x + y for doubles x, y >= 0 whose exponents differ by at most 53
FAdd(x, y) ==
    IF x.m = W0 THEN y ELSE IF y.m = W0 THEN x
    ELSE LET big == IF x.e >= y.e THEN x ELSE y
             small == IF x.e >= y.e THEN y ELSE x
             d == big.e - small.e
             s == WShr(small.m, d)
             sum == WAdd(big.m, s.q)
         IN IF sum[1] >= 2^(MantBits - LimbBits)
            THEN FRound(WShr(sum, 1).q, big.e + 1,
                        WOdd(sum) /\ s.rem # W0, WOdd(sum) /\ s.rem = W0)
            ELSE FRound(sum, big.e,
                        d > 0 /\ s.rem # WHalf(d) /\ WGeq(s.rem, WHalf(d)),
                        d > 0 /\ s.rem = WHalf(d))

RECURSIVE FDivBits(_, _, _, _)
FDivBits(q, r, y, e) ==
    IF WNormal(q) THEN FRound(q, e, WDbl(r) # y /\ WGeq(WDbl(r), y), WDbl(r) = y)
    ELSE LET r2 == WDbl(r)
             b == WGeq(r2, y)
         IN FDivBits(WAdd(WDbl(q), <<0, IF b THEN 1 ELSE 0>>),
                     IF b THEN WSub(r2, y) ELSE r2, y, e - 1)
\* x / y for doubles x >= 0 and y > 0
FDiv(x, y) ==
    IF x.m = W0 THEN FZero
    ELSE LET b == WGeq(x.m, y.m)
         IN FDivBits(<<0, IF b THEN 1 ELSE 0>>,
                     IF b THEN WSub(x.m, y.m) ELSE x.m, y.m, x.e - y.e)

\* ceil(x) for a double 0 <= x < 2^27
FCeil(x) ==
    IF x.m = W0 THEN 0
    ELSE IF -x.e > MantBits THEN 1
    ELSE LET s == WShr(x.m, -x.e) IN s.q[2] + (IF s.rem = W0 THEN 0 ELSE 1)

(***************************************************************************)
(* plots/utils.py: get_plotting_function                                   *)
(***************************************************************************)
\* the _backend table
Backends == (S_mpl :> S_matplotlib) @@ (S_bokeh :> S_bokeh)
            @@ (S_matplotlib :> S_matplotlib)

\* what the call does after the selector has been looked up: the bokeh version
\* check, the import of the backend's module and the lookup of the function
ImportBackend(plot_name, plot_module, backend, env) ==
    LET bokeh == IF backend = S_bokeh THEN <<[op |-> "import", what |-> S_bokeh]>>
                 ELSE <<>>
        module == [op |-> "import_module", what |-> backend, module |-> plot_module]
    IN IF backend = S_bokeh /\ ~env.bokeh_ok
       THEN [log |-> bokeh, ret |-> Raise("ImportError")]
       ELSE IF ~env.module_found
       THEN [log |-> bokeh \o <<module>>, ret |-> Raise("ModuleNotFoundError")]
       ELSE IF ~env.has_attr
       THEN [log |-> bokeh \o <<module>>, ret |-> Raise("AttributeError")]
       ELSE [log |-> bokeh \o <<module>>,
             ret |-> Return([backend |-> backend, module |-> plot_module,
                             name |-> plot_name])]

\* the selector is looked up as it was given
GetPlottingFunctionCaseSensitive(plot_name, plot_module, backend, env) ==
    IF backend \notin DOMAIN Backends
    THEN [log |-> <<>>, ret |-> Raise("KeyError")]
    ELSE ImportBackend(plot_name, plot_module, Backends[backend], env)

GetPlottingFunction(plot_name, plot_module, backend, env) ==
    LET lowered == StrLower(backend)
    IN IF lowered \notin DOMAIN Backends
       THEN [log |-> <<>>, ret |-> Raise("KeyError")]
       ELSE ImportBackend(plot_name, plot_module, Backends[lowered], env)

(***************************************************************************)
(* numpy and python helpers                                                *)
(***************************************************************************)
\* np.where(x)[0]: the positions (from 0) of the non-zero samples, in order
RECURSIVE WhereFrom(_, _)
WhereFrom(x, i) ==
    IF i > Len(x) THEN <<>>
    ELSE (IF x[i] # 0 THEN <<i - 1>> ELSE <<>>) \o WhereFrom(x, i + 1)
NpWhere(x) == WhereFrom(x, 1)

\* np.diff(x) with one interval too many: the first position is kept as one
NpDiffPrepend(x) ==
    IF Len(x) = 0 THEN <<>>
    ELSE [i \in 1..Len(x) |-> IF i = 1 THEN x[1] ELSE x[i] - x[i - 1]]

\* np.diff(x)
NpDiff(x) ==
    IF Len(x) <= 1 THEN <<>> ELSE [i \in 1..(Len(x) - 1) |-> x[i + 1] - x[i]]

\* x[::n] for n >= 1: the samples at positions 0, n, 2n, ...
Stride(x, n) ==
    IF Len(x) = 0 THEN <<>>
    ELSE [k \in 1..((Len(x) + n - 1) \div n) |-> x[(k - 1) * n + 1]]

\* x[a:b] for 0 <= a <= b <= len(x)
Slice(x, a, b) == IF b <= a THEN <<>> ELSE [k \in 1..(b - a) |-> x[a + k]]

\* python's round(n / d) for d > 0: to the nearest integer, a tie to the even one
RoundHalfEven(n, d) ==
    LET q == n \div d
        r == n - q * d
    IN IF 2 * r < d THEN q
       ELSE IF 2 * r > d THEN q + 1
       ELSE IF q % 2 = 0 THEN q ELSE q + 1

\* round(t * sfreq) for a time t given in tenths of a second
RoundSamples(t10, sfreq) == RoundHalfEven(t10 * sfreq, 10)

RECURSIVE Gcd(_, _)
Gcd(a, b) == IF b = 0 THEN a ELSE Gcd(b, a % b)
RECURSIVE LcmSeq(_)
LcmSeq(s) == IF s = <<>> THEN 1
             ELSE LET l == LcmSeq(Tail(s)) IN (Head(s) * l) \div Gcd(Head(s), l)

(***************************************************************************)
(* systole.detection: the peak detectors                                   *)
(***************************************************************************)
\* the selector is one more supported method
MethodsWithError == {"christov", "engelse-zeelenberg", "hamilton", "pan-tompkins",
                     "moving-average", "error"}

\* the methods of ecg_peaks
Methods == {"christov", "engelse-zeelenberg", "hamilton", "pan-tompkins",
            "moving-average"}
DefaultMethod == "pan-tompkins"
\* the half width, in samples, of the window searched for the local extremum
RefineRadius == 1

\* the coarse detector: the samples where the signal crosses its mean upwards
\* (positions from 1, in order)
Above(sig, i) == Len(sig) * sig[i] > SumSeq(sig)
RECURSIVE CrossingsFrom(_, _)
CrossingsFrom(sig, i) ==
    IF i > Len(sig) THEN <<>>
    ELSE (IF Above(sig, i) /\ (i = 1 \/ ~Above(sig, i - 1)) THEN <<i>> ELSE <<>>)
         \o CrossingsFrom(sig, i + 1)
ThresholdCrossings(sig) == CrossingsFrom(sig, 1)

\* the local maximum within the search window around candidate i
FindLocal(sig, i) ==
    LET w == {j \in DOMAIN sig : j >= i - RefineRadius /\ j <= i + RefineRadius}
    IN CHOOSE j \in w : \A k \in w : sig[j] > sig[k] \/ (sig[j] = sig[k] /\ j <= k)
Refine(sig, cand, find_local) ==
    IF find_local THEN [k \in DOMAIN cand |-> FindLocal(sig, cand[k])] ELSE cand

\* every candidate adds one to its sample
PeakVectorCounting(n, idx) ==
    [i \in 1..n |-> Cardinality({k \in DOMAIN idx : idx[k] = i})]

\* the peak vector: as long as the signal, 1 at the detected samples
PeakVector(n, idx) ==
    [i \in 1..n |-> IF \E k \in DOMAIN idx : idx[k] = i THEN 1 ELSE 0]

\* the peak vector of a signal whose coarse detector proposed the samples cand
PeaksOf(signal, cand, find_local) ==
    Arr(1, PeakVector(Len(signal.data), Refine(signal.data, cand, find_local)))

\* ppg_peaks, given what its coarse detector proposes
PpgPeaksFrom(signal, sfreq, cand) ==
    [log |-> <<[op |-> "detect", method |-> "ppg"]>>,
     ret |-> Return(<<signal, PeaksOf(signal, cand, FALSE)>>)]

\* ecg_peaks, given what the coarse detector of the method proposes
EcgPeaksFrom(signal, sfreq, method, find_local, cand) ==
    IF method \notin Methods
    THEN [log |-> <<>>, ret |-> Raise("ValueError")]
    ELSE [log |-> <<[op |-> "detect", method |-> method]>>
                  \o (IF find_local THEN <<[op |-> "find_local"]>> ELSE <<>>),
          ret |-> Return(<<signal, PeaksOf(signal, cand, find_local)>>)]

\* the detectors as plot_evoked calls them (no refinement asked for)
PpgPeaks(signal, sfreq) ==
    PpgPeaksFrom(signal, sfreq, ThresholdCrossings(signal.data)).ret
EcgPeaks(signal, sfreq, method, find_local) ==
    EcgPeaksFrom(signal, sfreq, method, find_local, ThresholdCrossings(signal.data)).ret

(***************************************************************************)
(* systole.utils: heart_rate                                               *)
(***************************************************************************)
InputTypes == {"peaks", "peaks_idx", "rr_ms", "rr_s"}
Units == {"rr", "bpm"}
Kinds == {"cubic", "linear", "previous", "next"}
DefaultSfreq == 1000

\* the beats' sample positions (from 0); interval inputs, which the converter
\* resamples, are not drawn by the calls modelled here
BeatIdx(x, input_type) ==
    CASE input_type = "peaks" -> NpWhere(x)
      [] input_type = "peaks_idx" -> x

\* the rate at anchor k (the trailing beat of interval k) as a numerator over den
RateDen(d, unit, sfreq) == IF unit = "rr" THEN sfreq ELSE LcmSeq(d)
RateNum(d, k, unit, sfreq) ==
    IF unit = "rr" THEN d[k] * 1000 ELSE (60 * sfreq * LcmSeq(d)) \div d[k]

\* the value at sample t of the series through the anchors (a[k], v[k]); before the
\* first and after the last anchor it is the nearest known value
Interp(a, v, t, kind) ==
    LET before == {k \in DOMAIN a : a[k] <= t}
        after == {k \in DOMAIN a : a[k] >= t}
        lo == IF before = {} THEN 1 ELSE CHOOSE k \in before : \A j \in before : j <= k
        hi == IF after = {} THEN Len(a) ELSE CHOOSE k \in after : \A j \in after : j >= k
        gaps == LcmSeq(NpDiff(a))
    IN CASE kind = "previous" -> v[lo]
         [] kind = "next" -> v[hi]
         [] kind = "linear" ->
              IF lo = hi \/ before = {} \/ after = {} THEN v[IF before = {} THEN 1 ELSE lo] * gaps
              ELSE (v[lo] * (a[hi] - t) + v[hi] * (t - a[lo])) * (gaps \div (a[hi] - a[lo]))

HeartRate(x, kind, unit, input_type, sfreq) ==
    IF x.ndim > 1 THEN Raise("ValueError")
    ELSE IF input_type \notin InputTypes \/ unit \notin Units \/ kind \notin Kinds
    THEN Raise("ValueError")
    ELSE LET idx == BeatIdx(x.data, input_type)
             d == NpDiff(idx)
             n == IF input_type = "peaks" THEN Len(x.data)
                  ELSE IF idx = <<>> THEN 0 ELSE idx[Len(idx)] + 1
             a == Tail(idx)
             v == [k \in DOMAIN d |-> RateNum(d, k, unit, sfreq)]
             den == RateDen(d, unit, sfreq)
                    * (IF kind = "linear" THEN LcmSeq(NpDiff(a)) ELSE 1)
         IN IF Len(idx) < 2 THEN Return(<<Arr(1, <<>>), <<>>>>)
            ELSE Return(<<ArrQ(1, [t \in 1..n |-> Interp(a, v, t - 1, kind)], den), a>>)

(***************************************************************************)
(* systole.utils: to_epochs                                                *)
(***************************************************************************)
\* the conditions' trigger positions: the lists given, or the true samples of the
\* trigger vector as one condition
Conditions(triggers, triggers_idx) ==
    IF ~IsNone(triggers_idx) THEN triggers_idx.data ELSE <<NpWhere(triggers.data)>>

InBounds(n, t, nmin, nmax) == t + nmin >= 0 /\ t + nmax <= n
Rejected(reject, t, nmin, nmax) ==
    ~IsNone(reject) /\ \E s \in (t + nmin + 1)..(t + nmax) : reject.data[s] # 0
Keep(n, reject, t, nmin, nmax) ==
    InBounds(n, t, nmin, nmax) /\ ~Rejected(reject, t, nmin, nmax)

\* the columns of a window of n columns that the baseline is the mean of: one
\* point, or an interval [a, b)
BaselineCols(apply_baseline, sfreq, nmin, n) ==
    (IF apply_baseline.tag = "point"
     THEN {RoundSamples(apply_baseline.t, sfreq) - nmin + 1}
     ELSE (RoundSamples(apply_baseline.a, sfreq) - nmin + 1)
          ..(RoundSamples(apply_baseline.b, sfreq) - nmin)) \cap (1..n)

RECURSIVE SumOver(_, _)
SumOver(row, cols) ==
    IF cols = {} THEN 0
    ELSE LET c == CHOOSE c \in cols : TRUE IN row[c] + SumOver(row, cols \ {c})

\* one trial's window less its baseline, the mean of its own reference columns:
\* numerators over BaselineDen
BaselineDen(apply_baseline, sfreq, nmin, n) ==
    IF IsNone(apply_baseline) THEN 1
    ELSE Cardinality(BaselineCols(apply_baseline, sfreq, nmin, n))
Corrected(row, apply_baseline, sfreq, nmin) ==
    IF IsNone(apply_baseline) THEN row
    ELSE LET cols == BaselineCols(apply_baseline, sfreq, nmin, Len(row))
         IN [c \in DOMAIN row |-> Cardinality(cols) * row[c] - SumOver(row, cols)]

RECURSIVE KeptRows(_, _, _, _, _, _, _)
KeptRows(signal, trig, reject, nmin, nmax, apply_baseline, sfreq) ==
    IF trig = <<>> THEN <<>>
    ELSE (IF Keep(Len(signal), reject, Head(trig), nmin, nmax)
          THEN <<Corrected(Slice(signal, Head(trig) + nmin, Head(trig) + nmax),
                           apply_baseline, sfreq, nmin)>>
          ELSE <<>>)
         \o KeptRows(signal, Tail(trig), reject, nmin, nmax, apply_baseline, sfreq)

ToEpochs(signal, triggers, triggers_idx, reject, sfreq, apply_baseline, tmin, tmax) ==
    IF IsNone(signal) \/ (IsNone(triggers) /\ IsNone(triggers_idx))
    THEN Raise("TypeError")
    ELSE LET nmin == RoundSamples(tmin, sfreq)
             nmax == RoundSamples(tmax, sfreq)
             cond == Conditions(triggers, triggers_idx)
             rows == [c \in DOMAIN cond |->
                        KeptRows(signal.data, cond[c], reject, nmin, nmax,
                                 apply_baseline, sfreq)]
         IN Return(<<PyList(3, [c \in DOMAIN cond |->
                                  ArrQ(2, rows[c], signal.den
                                       * BaselineDen(apply_baseline, sfreq, nmin,
                                                     Max(nmax - nmin, 0)))]),
                     [c \in DOMAIN cond |-> Len(cond[c]) - Len(rows[c])]>>)

(***************************************************************************)
(* plots/plot_evoked.py: plot_evoked                                       *)
(***************************************************************************)
Unbound == [tag |-> "unbound"]
Event(op) == [op |-> op]
Detection == {"ppg_peaks", "ecg_peaks"}
Computation == Detection \cup {"heart_rate", "to_epochs"}
Computed(l) == \E i \in DOMAIN l : l[i].op \in Computation

\* a step's outcome: the locals, the collaborators invoked, and a raise if any
Goes(l, e) == [loc |-> l, log |-> e, ret |-> NoReturn]
Fails(l, e, exc) == [loc |-> l, log |-> e, ret |-> Raise(exc)]

\* lines 225-231
PaletteStep(a, l) ==
    IF IsNone(a.palette) THEN Goes([l EXCEPT !.this_palette = PyStr("deep")], <<>>)
    ELSE IF a.palette.tag = "list" THEN Goes([l EXCEPT !.this_palette = a.palette], <<>>)
    ELSE Fails(l, <<>>, "ValueError")

\* lines 233-238
FigsizeStep(a, l) ==
    IF IsNone(l.figsize)
    THEN IF a.backend = S_matplotlib THEN Goes([l EXCEPT !.figsize = <<13, 5>>], <<>>)
         ELSE IF a.backend = S_bokeh THEN Goes([l EXCEPT !.figsize = <<400, 400>>], <<>>)
         ELSE Goes(l, <<>>)
    ELSE Goes(l, <<>>)

\* the rate series out of the detected peaks or out of rr
RateFrom(l, e, x, kind, unit, input_type, sfreq) ==
    LET hr == HeartRate(x, kind, unit, input_type, sfreq)
    IN IF hr.kind = "raise" THEN Fails(l, e \o <<Event("heart_rate")>>, hr.exc)
       ELSE Goes([l EXCEPT !.rr = hr.value[1], !.underscore = hr.value[2]],
                 e \o <<Event("heart_rate")>>)

\* rr is handed to the converter as it comes
ExtractStepUncheckedRr(a, l) ==
    IF ~IsNone(l.signal)
    THEN LET signal == NpAsarray(l.signal)
             l1 == [l EXCEPT !.signal = signal]
         IN IF signal.ndim > 1 THEN Fails(l1, <<>>, "ValueError")
            ELSE IF a.modality \in {"ppg", "ecg"}
            THEN LET p == IF a.modality = "ppg" THEN PpgPeaks(signal, a.sfreq)
                          ELSE EcgPeaks(signal, a.sfreq, DefaultMethod, FALSE)
                 IN RateFrom([l1 EXCEPT !.underscore = p.value[1], !.peaks = p.value[2]],
                             <<Event(a.modality \o "_peaks")>>, p.value[2],
                             a.kind, a.unit, "peaks", DefaultSfreq)
            ELSE Fails(l1, <<>>, "UnboundLocalError")
    ELSE IF ~IsNone(l.rr)
    THEN RateFrom([l EXCEPT !.rr = NpAsarray(l.rr)], <<>>, NpAsarray(l.rr),
                  a.kind, a.unit, a.input_type, a.sfreq)
    ELSE Goes(l, <<>>)

\* rr is looked at before signal
ExtractStepRrFirst(a, l) ==
    IF ~IsNone(l.rr)
    THEN LET rr == NpAsarray(l.rr)
             l1 == [l EXCEPT !.rr = rr]
         IN IF rr.ndim > 1 THEN Fails(l1, <<>>, "ValueError")
            ELSE RateFrom(l1, <<>>, rr, a.kind, a.unit, a.input_type, a.sfreq)
    ELSE IF ~IsNone(l.signal)
    THEN LET signal == NpAsarray(l.signal)
             l1 == [l EXCEPT !.signal = signal]
         IN IF signal.ndim > 1 THEN Fails(l1, <<>>, "ValueError")
            ELSE IF a.modality \in {"ppg", "ecg"}
            THEN LET p == IF a.modality = "ppg" THEN PpgPeaks(signal, a.sfreq)
                          ELSE EcgPeaks(signal, a.sfreq, DefaultMethod, FALSE)
                 IN RateFrom([l1 EXCEPT !.underscore = p.value[1], !.peaks = p.value[2]],
                             <<Event(a.modality \o "_peaks")>>, p.value[2],
                             a.kind, a.unit, "peaks", DefaultSfreq)
            ELSE Fails(l1, <<>>, "UnboundLocalError")
    ELSE Goes(l, <<>>)

\* lines 240-258
ExtractStep(a, l) ==
    IF ~IsNone(l.signal)
    THEN LET signal == NpAsarray(l.signal)
             l1 == [l EXCEPT !.signal = signal]
         IN IF signal.ndim > 1 THEN Fails(l1, <<>>, "ValueError")
            ELSE IF a.modality = "ppg"
            THEN LET p == PpgPeaks(signal, a.sfreq)
                 IN RateFrom([l1 EXCEPT !.underscore = p.value[1], !.peaks = p.value[2]],
                             <<Event("ppg_peaks")>>, p.value[2],
                             a.kind, a.unit, "peaks", DefaultSfreq)
            ELSE IF a.modality = "ecg"
            THEN LET p == EcgPeaks(signal, a.sfreq, DefaultMethod, FALSE)
                 IN IF p.kind = "raise" THEN Fails(l1, <<Event("ecg_peaks")>>, p.exc)
                    ELSE RateFrom([l1 EXCEPT !.underscore = p.value[1],
                                              !.peaks = p.value[2]],
                                  <<Event("ecg_peaks")>>, p.value[2],
                                  a.kind, a.unit, "peaks", DefaultSfreq)
            ELSE \* peaks was never bound
                 Fails(l1, <<>>, "UnboundLocalError")
    ELSE IF ~IsNone(l.rr)
    THEN LET rr == NpAsarray(l.rr)
             l1 == [l EXCEPT !.rr = rr]
         IN IF rr.ndim > 1 THEN Fails(l1, <<>>, "ValueError")
            ELSE RateFrom(l1, <<>>, rr, a.kind, a.unit, a.input_type, a.sfreq)
    ELSE Goes(l, <<>>)

EpochsFrom(a, l, sfreq) ==
    LET ep == ToEpochs(l.rr, a.triggers, a.triggers_idx, a.reject, sfreq,
                       a.apply_baseline, a.tmin, a.tmax)
    IN IF ep.kind = "raise" THEN Fails(l, <<Event("to_epochs")>>, ep.exc)
       ELSE Goes([l EXCEPT !.epochs = ep.value[1], !.underscore = ep.value[2]],
                 <<Event("to_epochs")>>)

\* sfreq is not handed on: the epoch builder falls back on its default
EpochingStepDefaultSfreq(a, l) ==
    IF IsNone(l.epochs) THEN EpochsFrom(a, l, DefaultSfreq) ELSE Goes(l, <<>>)

\* apply_baseline is not handed on: the trials are left as they were cut
EpochingStepNoBaseline(a, l) ==
    IF IsNone(l.epochs)
    THEN EpochsFrom([a EXCEPT !.apply_baseline = None], l, a.sfreq)
    ELSE Goes(l, <<>>)

\* lines 260-271
EpochingStep(a, l) ==
    IF IsNone(l.epochs) THEN EpochsFrom(a, l, a.sfreq) ELSE Goes(l, <<>>)

\* lines 273-275
FormatStep(a, l) ==
    IF l.epochs.tag = "array" THEN Goes([l EXCEPT !.epochs = PyList(3, <<l.epochs>>)], <<>>)
    ELSE Goes(l, <<>>)

\* lines 277-283
LabelsStep(a, l) ==
    IF IsNone(l.labels)
    THEN Goes([l EXCEPT !.labels =
                 PyList(1, [i \in 1..Len(l.epochs.data) |-> <<"Condition", i>>])], <<>>)
    ELSE IF l.labels.tag = "str"
    THEN Goes([l EXCEPT !.labels = PyList(1, <<l.labels.data>>)], <<>>)
    ELSE Goes(l, <<>>)

\* the number of points of np.arange(n0 / sfreq, n1 / sfreq, 1 / sfreq) for
\* n0 <= 0 <= n1: ceil((stop - start) / step), computed in doubles
ArangeLen(n0, n1, sfreq) ==
    FCeil(FDiv(FAdd(FromRatio(n1, sfreq), FromRatio(-n0, sfreq)), FromRatio(1, sfreq)))

\* lines 285-288: the time axis, each point given by its sample offset from the
\* trigger (point i is start + i * step)
TimeAxis(tmin, tmax, sfreq) ==
    LET n0 == RoundSamples(tmin, sfreq)
    IN [i \in 1..ArangeLen(n0, RoundSamples(tmax, sfreq), sfreq) |-> n0 + i - 1]
TimeStep(a, l) == Goes([l EXCEPT !.time = TimeAxis(a.tmin, a.tmax, a.sfreq)], <<>>)

\* x[:, ::n] of a 2-D array
StrideColumns(x, n) == [x EXCEPT !.data = [r \in DOMAIN x.data |-> Stride(x.data[r], n)]]

\* lines 290-293 (a stride of 0 is an error of the slice)
DecimStep(a, l) ==
    IF IsNone(a.decim) THEN Goes(l, <<>>)
    ELSE IF a.decim.data = 0 THEN Fails(l, <<>>, "ValueError")
    ELSE Goes([l EXCEPT !.epochs.data = [i \in DOMAIN l.epochs.data |->
                                           StrideColumns(l.epochs.data[i], a.decim.data)],
                        !.time = Stride(l.time, a.decim.data)],
              <<>>)

\* lines 295-309
DispatchStep(a, l) ==
    LET g == GetPlottingFunction("plot_evoked", "plot_evoked", a.backend, a.env)
        e == <<Event("get_plotting_function")>> \o g.log
    IN IF g.ret.kind = "raise" THEN Fails(l, e, g.ret.exc)
       ELSE [loc |-> l, log |-> e \o <<Event("plotting_function")>>,
             ret |-> Return([tag |-> "plot", backend |-> g.ret.value.backend,
                             epochs |-> l.epochs, time |-> l.time,
                             palette |-> l.this_palette, ax |-> a.ax,
                             figsize |-> l.figsize, labels |-> l.labels,
                             unit |-> a.unit, ci |-> a.ci])]

\* one statement block of the call in progress
Step(at, out, next) ==
    /\ fn = "plot_evoked"
    /\ pc = at
    /\ loc' = out.loc
    /\ log' = log \o out.log
    /\ ret' = out.ret
    /\ pc' = IF out.ret.kind = "none" THEN next ELSE "done"
    /\ UNCHANGED <<fn, args>>

Palette == Step("palette", PaletteStep(args, loc), "figsize")
Figsize == Step("figsize", FigsizeStep(args, loc), "extract")
Extract == Step("extract", ExtractStep(args, loc), "epoching")
Epoching == Step("epoching", EpochingStep(args, loc), "format")
Format == Step("format", FormatStep(args, loc), "labels")
Labels == Step("labels", LabelsStep(args, loc), "time")
Time == Step("time", TimeStep(args, loc), "decim")
Decim == Step("decim", DecimStep(args, loc), "dispatch")
Dispatch == Step("dispatch", DispatchStep(args, loc), "done")

(***************************************************************************)
(* The calls of plot_evoked that are explored                              *)
(***************************************************************************)
SeriesLen == 8      \* samples of the recordings
MaxPre == 2         \* tmin is drawn from -MaxPre .. 0 tenths of a second
MaxPost == 3        \* tmax is drawn from 1 .. MaxPost tenths of a second
MaxDecim == 2       \* decim is drawn from None, 0 .. MaxDecim
Sfreqs == {4, 10}

\* beats at samples 0, 2, 5, 9, 14, ... (from 0)
IsBeat(i) == \E k \in 0..i : k * (k + 3) = 2 * i
PeaksIn(n) == [i \in 1..n |-> IF IsBeat(i - 1) THEN 1 ELSE 0]
SignalIn(n) == [i \in 1..n |-> IF IsBeat(i - 1) THEN 5 ELSE 1]

Signals == {None, Arr(1, SignalIn(SeriesLen)), PyList(1, SignalIn(SeriesLen)),
            Arr(2, <<SignalIn(SeriesLen), SignalIn(SeriesLen)>>)}
Rrs == {None, Arr(1, PeaksIn(SeriesLen)),
        PyList(2, <<PeaksIn(SeriesLen), PeaksIn(SeriesLen)>>)}
EpochsGiven == {None, Arr(2, <<<<1, 2, 3>>, <<4, 5, 6>>>>),
                PyList(3, <<Arr(2, <<<<1, 2, 3>>, <<4, 5, 6>>>>), Arr(2, <<<<7, 8, 9>>>>)>>)}
TriggersIdx == {PyList(2, <<<<3>>>>),
                PyList(2, <<<<0, 3>>, <<4, SeriesLen - 1>>>>),
                PyList(2, <<<<2, 5>>, <<>>>>)}
TriggerVector == Arr(1, [i \in 1..SeriesLen |-> IF i \in {3, 6} THEN 1 ELSE 0])
Rejects == {None, Arr(1, [i \in 1..SeriesLen |-> IF i = 6 THEN 1 ELSE 0])}
\* no baseline, the sample of the trigger, or the interval from tmin to the trigger
BaselineGiven(which, tmin) ==
    CASE which = "none" -> None
      [] which = "point" -> [tag |-> "point", t |-> 0]
      [] which = "interval" -> [tag |-> "interval", a |-> tmin, b |-> 0]
Decims == {None} \cup {[tag |-> "int", data |-> n] : n \in 0..MaxDecim}
LabelsGiven == {None, PyStr("rest"), PyList(1, <<"rest", "task">>)}
Palettes == {None, PyList(1, <<"b", "r">>), PyStr("deep")}
S_MPL == <<"M", "P", "L">>
S_plotly == <<"p", "l", "o", "t", "l", "y">>
BackendsGiven == {S_matplotlib, S_bokeh, S_MPL, S_plotly}
Envs == [bokeh_ok : BOOLEAN, module_found : BOOLEAN, has_attr : BOOLEAN]
Installed == [bokeh_ok |-> TRUE, module_found |-> TRUE, has_attr |-> TRUE]

\* plot_evoked(rr=peaks, triggers_idx=..., sfreq=10, tmin=-0.1, tmax=0.3)
BaseCall ==
    [epochs |-> None, signal |-> None, triggers |-> None,
     triggers_idx |-> PyList(2, <<<<0, 3>>, <<4, SeriesLen - 1>>>>),
     rr |-> Arr(1, PeaksIn(SeriesLen)), input_type |-> "peaks", reject |-> None,
     modality |-> "ppg", tmin |-> -1, tmax |-> 3, sfreq |-> 10,
     apply_baseline |-> [tag |-> "point", t |-> 0], decim |-> None, labels |-> None,
     unit |-> "bpm", kind |-> "linear", ci |-> "sd", ax |-> None, figsize |-> None,
     backend |-> S_matplotlib, palette |-> None, env |-> Installed]

\* the windows, the triggers and what is done to the epochs
WindowCalls ==
    {[BaseCall EXCEPT !.sfreq = c[1], !.tmin = c[2], !.tmax = c[3],
                      !.triggers_idx = c[4].idx, !.triggers = c[4].vec,
                      !.reject = c[5], !.decim = c[6], !.backend = c[7],
                      !.apply_baseline = BaselineGiven(c[8], c[2])] :
        c \in Sfreqs \X ((-MaxPre)..0) \X (1..MaxPost)
              \X ({[idx |-> t, vec |-> None] : t \in TriggersIdx}
                  \cup {[idx |-> None, vec |-> TriggerVector]})
              \X Rejects \X Decims \X {S_matplotlib, S_plotly}
              \X {"none", "point", "interval"}}

\* which input is given, and what is checked on the way
InputCalls ==
    {[BaseCall EXCEPT !.signal = c[1], !.rr = c[2], !.epochs = c[3], !.modality = c[4],
                      !.backend = c[5], !.palette = c[6], !.env.bokeh_ok = c[7]] :
        c \in Signals \X Rrs \X EpochsGiven \X {"ppg", "ecg", "eeg"} \X BackendsGiven
              \X Palettes \X BOOLEAN}

\* the options handed on to the converter and to the plot
OptionCalls ==
    {[BaseCall EXCEPT !.kind = c[1], !.unit = c[2], !.input_type = c[3], !.labels = c[4],
                      !.figsize = c[5], !.signal = c[6],
                      !.triggers_idx = IF c[7] THEN None ELSE @] :
        c \in {"previous", "next", "linear", "spline"} \X {"bpm", "rr", "hz"}
              \X {"peaks", "beats"} \X LabelsGiven \X {None, [tag |-> "tuple", data |-> <<4, 4>>]}
              \X {None, Arr(1, SignalIn(SeriesLen))} \X BOOLEAN}

Locals(a) ==
    [this_palette |-> Unbound, figsize |-> a.figsize, signal |-> a.signal, rr |-> a.rr,
     peaks |-> Unbound, epochs |-> a.epochs, underscore |-> Unbound,
     labels |-> a.labels, time |-> Unbound]

Init ==
    /\ fn = "plot_evoked"
    /\ args \in WindowCalls \cup InputCalls \cup OptionCalls
    /\ loc = Locals(args)
    /\ pc = "palette"
    /\ log = <<>>
    /\ ret = NoReturn

Next ==
    \/ Palette
    \/ Figsize
    \/ Extract
    \/ Epoching
    \/ Format
    \/ Labels
    \/ Time
    \/ Decim
    \/ Dispatch

Spec == Init /\ [][Next]_vars

(***************************************************************************)
(* Properties of plot_evoked                                               *)
(***************************************************************************)
Unrecognized == StrLower(args.backend) \notin {S_mpl, S_matplotlib, S_bokeh}
BadShape ==
    \/ ~IsNone(args.signal) /\ args.signal.ndim > 1
    \/ IsNone(args.signal) /\ ~IsNone(args.rr) /\ args.rr.ndim > 1
\* the epochs are the ones to_epochs has just built for this call
EpochsBuilt == fn = "plot_evoked" /\ pc = "format" /\ IsNone(args.epochs)
WindowStart == RoundSamples(args.tmin, args.sfreq)
WindowStop == RoundSamples(args.tmax, args.sfreq)
\* the window of a trigger lies within the series and off the rejected samples
WindowUsable(t) ==
    /\ t + WindowStart >= 0
    /\ t + WindowStop <= Len(loc.rr.data)
    /\ IsNone(args.reject)
       \/ \A s \in (t + WindowStart)..(t + WindowStop - 1) : args.reject.data[s + 1] = 0
TriggersOf(c) == Conditions(args.triggers, args.triggers_idx)[c]

\* C5: every retained epoch row has exactly round(tmax*sfreq) - round(tmin*sfreq)
\* samples (300 for tmin=-1, tmax=2, sfreq=100), and for every condition the
\* retained trials are the triggers whose window lies within the series and off
\* the rejected samples, the others being counted as rejected: retained plus
\* rejected is the number of triggers
C5_EpochWindows ==
    /\ RoundSamples(20, 100) - RoundSamples(-10, 100) = 300
    /\ EpochsBuilt =>
         \A c \in DOMAIN loc.epochs.data :
            LET rows == loc.epochs.data[c].data
                usable == {k \in DOMAIN TriggersOf(c) : WindowUsable(TriggersOf(c)[k])}
            IN /\ \A r \in DOMAIN rows : Len(rows[r]) = WindowStop - WindowStart
               /\ Len(rows) = Cardinality(usable)
               /\ loc.underscore[c] = Len(TriggersOf(c)) - Cardinality(usable)
               /\ Len(rows) + loc.underscore[c] = Len(TriggersOf(c))

\* a condition with a retained and a dropped trial
C5_Witness ==
    /\ EpochsBuilt
    /\ \E c \in DOMAIN loc.epochs.data :
          /\ Len(loc.epochs.data[c].data) >= 1
          /\ loc.underscore[c] >= 1
          /\ Len(loc.epochs.data[c].data[1]) >= 2

\* C7: a signal, or with no signal an rr vector, of more than one dimension ends
\* the call in a ValueError, and no peak detection, heart-rate conversion or
\* epoching is done in that call
C7_ShapeError ==
    (fn = "plot_evoked" /\ BadShape) =>
        /\ ~Computed(log)
        /\ pc = "done" => ret = Raise("ValueError")

\* the call has ended at the check of the dimensions of rr
C7_Witness ==
    /\ fn = "plot_evoked" /\ pc = "done" /\ BadShape
    /\ IsNone(args.signal) /\ loc.this_palette.tag # "unbound"
    /\ ret = Raise("ValueError")

\* C8 as stated: when an unrecognized backend selector ends the call in the
\* invalid-selector error, no peak detection, heart-rate conversion or epoching
\* has been carried out
C8_NoPartialComputation ==
    (fn = "plot_evoked" /\ pc = "done" /\ Unrecognized /\ ret = Raise("KeyError"))
        => ~Computed(log)

\* the epochs as they were before the decimation
EpochsBefore ==
    IF IsNone(args.epochs)
    THEN ToEpochs(loc.rr, args.triggers, args.triggers_idx, args.reject, args.sfreq,
                  args.apply_baseline, args.tmin, args.tmax).value[1].data
    ELSE IF args.epochs.tag = "array" THEN <<args.epochs>> ELSE args.epochs.data

\* C10: before the decimation the time axis has as many points as each epoch has
\* columns, round(tmax*sfreq) - round(tmin*sfreq); after a decimation by N the
\* epochs and the time axis hold the samples of positions 0, N, 2N, ... and so
\* have the same number of columns
C10_DecimationAligned ==
    /\ (fn = "plot_evoked" /\ pc = "decim" /\ IsNone(args.epochs)) =>
          /\ Len(loc.time) = WindowStop - WindowStart
          /\ \A c \in DOMAIN loc.epochs.data : \A r \in DOMAIN loc.epochs.data[c].data :
                Len(loc.epochs.data[c].data[r]) = Len(loc.time)
    /\ (fn = "plot_evoked" /\ pc = "dispatch" /\ ~IsNone(args.decim)) =>
          LET n == args.decim.data
          IN /\ \A k \in DOMAIN loc.time : loc.time[k] = WindowStart + (k - 1) * n
             /\ \A c \in DOMAIN loc.epochs.data : \A r \in DOMAIN loc.epochs.data[c].data :
                   LET row == loc.epochs.data[c].data[r]
                   IN /\ IsNone(args.epochs) => Len(row) = Len(loc.time)
                      /\ \A k \in DOMAIN row : row[k] = EpochsBefore[c].data[r][(k - 1) * n + 1]

(***************************************************************************)
(* A call of get_plotting_function on its own                              *)
(***************************************************************************)
MaxCaps == 2
UpperChar(c) == IF \E i \in DOMAIN LowerChars : LowerChars[i] = c
                THEN UpperChars[CHOOSE i \in DOMAIN LowerChars : LowerChars[i] = c]
                ELSE c
\* the spellings of a word with at most MaxCaps letters in upper case
Spellings(w) ==
    {[i \in DOMAIN w |-> IF i \in caps THEN UpperChar(w[i]) ELSE w[i]] :
        caps \in {c \in SUBSET DOMAIN w : Cardinality(c) <= MaxCaps}}
Words == {S_mpl, S_bokeh, S_matplotlib, S_plotly, <<>>, <<"m", "p">>,
          <<"m", "p", "l", " ">>, <<"b", "o", "k", "e", "h", "2">>,
          <<"m", "a", "t", "p", "l", "o", "t">>}
Selectors == UNION {Spellings(w) : w \in Words}
PlotNames == {"plot_evoked", "plot_rr"}

InitBackend ==
    /\ fn = "get_plotting_function"
    /\ args \in [plot_name : PlotNames, plot_module : PlotNames, backend : Selectors,
                 env : Envs]
    /\ args.plot_name = args.plot_module
    /\ loc = <<>>
    /\ pc = "call"
    /\ log = <<>>
    /\ ret = NoReturn

GetPlottingFunctionCall ==
    /\ fn = "get_plotting_function"
    /\ pc = "call"
    /\ LET out == GetPlottingFunction(args.plot_name, args.plot_module, args.backend,
                                      args.env)
       IN /\ log' = log \o out.log
          /\ ret' = out.ret
    /\ pc' = "done"
    /\ UNCHANGED <<fn, args, loc>>

NextBackend == GetPlottingFunctionCall

SpecBackend == InitBackend /\ [][NextBackend]_vars

\* the backend that was imported, or asked of the installation, in this call
Imported == {log[i].what : i \in {j \in DOMAIN log : log[j].op = "import_module"}}

\* C6: a selector that, in lower case, is not mpl, matplotlib or bokeh is
\* rejected with a KeyError before any import is attempted; a selector that is
\* one of them in any letter case is not rejected, and mpl selects the backend
\* that matplotlib selects
C6_SelectorValidation ==
    (fn = "get_plotting_function" /\ pc = "done") =>
        /\ Unrecognized => (ret = Raise("KeyError") /\ log = <<>>)
        /\ ~Unrecognized => ~(ret.kind = "raise" /\ ret.exc = "KeyError")
        /\ args.backend \in {S_MPL, <<"m", "P", "l">>, <<"M", "a", "t", "p", "l", "o", "t",
                              "l", "i", "b">>} => Imported \subseteq {S_matplotlib}
        /\ StrLower(args.backend) \in {S_mpl, S_matplotlib} =>
              /\ Imported \subseteq {S_matplotlib}
              /\ ret.kind = "return" => ret.value.backend = S_matplotlib
              /\ args.env.module_found /\ args.env.has_attr => ret.kind = "return"
        /\ StrLower(args.backend) = S_bokeh =>
              /\ Imported \subseteq {S_bokeh}
              /\ ret.kind = "return" => ret.value.backend = S_bokeh

\* a selector with an upper-case letter that is not one of the three is rejected
C6_Witness ==
    /\ fn = "get_plotting_function" /\ pc = "done"
    /\ Unrecognized /\ args.backend # StrLower(args.backend)
    /\ ret = Raise("KeyError") /\ log = <<>>

(***************************************************************************)
(* time_table, frequency_table and nonlinear_table                         *)
(***************************************************************************)
TableFns == {"time_table", "frequency_table", "nonlinear_table"}
NoCell == "None"
\* the cells of the data dictionary that are read from the summary dataframe
Layouts ==
    [time_table |->
        [value |-> <<"MeanRR", "MedianRR", "MinRR", "MaxRR", NoCell, "MeanBPM",
                     "MedianBPM", "MinBPM", "MaxBPM", NoCell, "SDNN", "SDSD", "RMSSD",
                     "nn50", "pnn50">>],
     frequency_table |->
        [peaks |-> <<"vlf_peak", "lf_peak", "hf_peak", NoCell, NoCell>>,
         power |-> <<"vlf_power", "lf_power", "hf_power", "total_power", "lf_hf_ratio">>,
         power_per |-> <<"vlf_power_per", "lf_power_per", "hf_power_per", NoCell, NoCell>>,
         power_nu |-> <<NoCell, "lf_power_nu", "hf_power_nu", NoCell, NoCell>>],
     nonlinear_table |->
        [value |-> <<NoCell, "SD1", "SD2", NoCell, NoCell, "l_mean", "l_max",
                     "recurrence_rate", "determinism_rate", "shannon_entropy">>]]
Headers ==
    [time_table |-> <<"Variable", "Units", "Value">>,
     frequency_table |-> <<"Frequency Band", "Peaks (Hz)", "Power (ms2)", "Power (%)",
                           "Power (n.u.)">>,
     nonlinear_table |-> <<"Variable", "Units", "Value">>]
Domains ==
    [time_table |-> "time_domain", frequency_table |-> "frequency_domain",
     nonlinear_table |-> "nonlinear_domain"]
Required(f) ==
    UNION {Range(Layouts[f][col]) : col \in DOMAIN Layouts[f]} \ {NoCell}

\* a summary dataframe: its metrics, and the series the values were computed from
DataFrame(metrics, origin) == [tag |-> "DataFrame", metrics |-> metrics, origin |-> origin]
\* time_domain, frequency_domain, nonlinear_domain of systole.hrv
HrvDomain(f, rr, input_type) ==
    IF input_type.tag # "str" \/ input_type.data \notin InputTypes
    THEN Raise("ValueError")
    ELSE Return(DataFrame(Required(f), [rr |-> rr, input_type |-> input_type.data]))

\* rr and input_type are handed to the domain function as they come
TableSummaryStepUnchecked(f, a, l) ==
    IF ~IsNone(a.df) THEN Goes(l, <<>>)
    ELSE LET out == HrvDomain(f, a.rr, a.input_type)
         IN IF out.kind = "raise"
            THEN [loc |-> l, log |-> <<Event(Domains[f])>>, ret |-> out]
            ELSE Goes([l EXCEPT !.df = out.value], <<Event(Domains[f])>>)

\* lines 113-118, 252-257, 386-391
TableSummaryStep(f, a, l) ==
    IF ~IsNone(a.df) THEN Goes(l, <<>>)
    ELSE IF IsNone(a.rr) \/ IsNone(a.input_type)
    THEN Fails(l, <<>>, "ValueError")
    ELSE LET out == HrvDomain(f, a.rr, a.input_type)
         IN IF out.kind = "raise"
            THEN [loc |-> l, log |-> <<Event(Domains[f])>>, ret |-> out]
            ELSE Goes([l EXCEPT !.df = out.value], <<Event(Domains[f])>>)

\* df[df.Metric == m]["Values"].iloc[0]
Cell(df, m) == [metric |-> m, of |-> df.origin]
\* lines 120-172, 259-295, 393-430
TableDataStep(f, a, l) ==
    IF ~(Required(f) \subseteq l.df.metrics)
    THEN Fails(l, <<>>, "IndexError")
    ELSE Goes([l EXCEPT !.data =
                 [col \in DOMAIN Layouts[f] |->
                    [i \in DOMAIN Layouts[f][col] |->
                       IF Layouts[f][col][i] = NoCell THEN None
                       ELSE Cell(l.df, Layouts[f][col][i])]]], <<>>)

\* lines 174-196, 297-330, 432-454
TableFormatStep(f, a, l) ==
    IF a.backend = "bokeh"
    THEN Goes([l EXCEPT !.table =
                 [tag |-> "Column",
                  children |-> <<[tag |-> "DataTable", source |-> l.data,
                                  columns |-> Headers[f], width |-> a.width,
                                  height |-> a.height]>>]], <<Event("DataTable")>>)
    ELSE IF a.backend = "tabulate"
    THEN Goes([l EXCEPT !.table = [tag |-> "str", rows |-> l.data,
                                   headers |-> Headers[f]]], <<Event("tabulate")>>)
    ELSE Goes(l, <<>>)

\* lines 198, 332, 456
TableReturnStep(f, a, l) ==
    IF l.table = Unbound
    THEN Fails(l, <<>>, "UnboundLocalError")
    ELSE [loc |-> l, log |-> <<>>, ret |-> Return(l.table)]

TableStep(at, out, next) ==
    /\ fn \in TableFns
    /\ pc = at
    /\ loc' = out.loc
    /\ log' = log \o out.log
    /\ ret' = out.ret
    /\ pc' = IF out.ret.kind = "none" THEN next ELSE "done"
    /\ UNCHANGED <<fn, args>>

TableSummary == TableStep("summary", TableSummaryStep(fn, args, loc), "data")
TableData == TableStep("data", TableDataStep(fn, args, loc), "format")
TableFormat == TableStep("format", TableFormatStep(fn, args, loc), "return")
TableReturn == TableStep("return", TableReturnStep(fn, args, loc), "done")

RrGiven == {None, Arr(1, <<800, 810, 790, 805>>), PyList(1, <<800, 810, 790, 805>>)}
InputTypesGiven == {None, PyStr("rr_ms"), PyStr("rr_s"), PyStr("peaks"), PyStr("rr")}
\* no dataframe, the dataframe of each domain, and one with a metric missing
DataFramesGiven(f) ==
    {None} \cup {DataFrame(Required(g), "given") : g \in TableFns}
           \cup {DataFrame(Required(f) \ {m}, "given") : m \in {"MeanRR", "hf_peak", "SD2"}}
TableBackends == {"tabulate", "bokeh", "latex", "Tabulate", "BOKEH", "matplotlib", ""}

InitTables ==
    /\ fn \in TableFns
    /\ \E rr \in RrGiven, it \in InputTypesGiven, df \in DataFramesGiven(fn),
          b \in TableBackends :
          args = [rr |-> rr, input_type |-> it, df |-> df, backend |-> b,
                  width |-> 600, height |-> 300]
    /\ loc = [df |-> args.df, data |-> Unbound, table |-> Unbound]
    /\ pc = "summary"
    /\ log = <<>>
    /\ ret = NoReturn

NextTables ==
    \/ TableSummary
    \/ TableData
    \/ TableFormat
    \/ TableReturn

SpecTables == InitTables /\ [][NextTables]_vars

\* the call has a summary dataframe with the metrics of its table, or a series
\* and an input type to compute it from
TableInputsValid ==
    IF IsNone(args.df)
    THEN ~IsNone(args.rr) /\ ~IsNone(args.input_type) /\ args.input_type.data \in InputTypes
    ELSE Required(fn) \subseteq args.df.metrics

\* C9: a table function called with a backend selector other than "tabulate" or
\* "bokeh" fails with an invalid-selector error (a ValueError or a KeyError); it
\* neither returns a table nor fails in another way
C9_InvalidBackendRejected ==
    (fn \in TableFns /\ pc = "done" /\ TableInputsValid
        /\ args.backend \notin {"tabulate", "bokeh"})
    => (ret.kind = "raise" /\ ret.exc \in {"ValueError", "KeyError"})

(***************************************************************************)
(* A call of ecg_peaks or ppg_peaks on its own                             *)
(***************************************************************************)
DetectLen == 3
MaxSample == 2
SignalsGiven == UNION {[1..n -> 0..MaxSample] : n \in 0..DetectLen}
\* the members of a set of samples, in increasing order
InOrder(S) ==
    [k \in 1..Cardinality(S) |-> CHOOSE x \in S : Cardinality({y \in S : y < x}) = k - 1]
\* what a coarse detector may propose on a signal of n samples
Candidates(n) == {InOrder(S) : S \in SUBSET (1..n)}
MethodsGiven == Methods \cup {"error", "Hamilton"}

InitDetect ==
    /\ \E sig \in SignalsGiven, cand \in Candidates(DetectLen) :
          /\ \A k \in DOMAIN cand : cand[k] <= Len(sig)
          /\ \/ /\ fn = "ecg_peaks"
                /\ \E m \in MethodsGiven, f \in BOOLEAN :
                      args = [signal |-> Arr(1, sig), sfreq |-> 2000, method |-> m,
                              find_local |-> f, cand |-> cand]
             \/ /\ fn = "ppg_peaks"
                /\ args = [signal |-> Arr(1, sig), sfreq |-> 75, cand |-> cand]
    /\ loc = <<>>
    /\ pc = "call"
    /\ log = <<>>
    /\ ret = NoReturn

Returns(out) ==
    /\ pc = "call"
    /\ log' = log \o out.log
    /\ ret' = out.ret
    /\ pc' = "done"
    /\ UNCHANGED <<fn, args, loc>>

EcgPeaksCall ==
    /\ fn = "ecg_peaks"
    /\ Returns(EcgPeaksFrom(args.signal, args.sfreq, args.method, args.find_local,
                            args.cand))
PpgPeaksCall ==
    /\ fn = "ppg_peaks"
    /\ Returns(PpgPeaksFrom(args.signal, args.sfreq, args.cand))

NextDetect ==
    \/ EcgPeaksCall
    \/ PpgPeaksCall

SpecDetect == InitDetect /\ [][NextDetect]_vars

\* C1: ecg_peaks called with a method that is not christov, engelse-zeelenberg,
\* hamilton, pan-tompkins or moving-average raises a ValueError, and no detection
\* step has been run when it does
C1_InvalidMethod ==
    (fn = "ecg_peaks" /\ pc = "done"
        /\ args.method \notin {"christov", "engelse-zeelenberg", "hamilton",
                               "pan-tompkins", "moving-average"})
    => (ret = Raise("ValueError") /\ log = <<>>)

\* the method "error" of the test, on a signal in which there is a beat to detect
C1_Witness ==
    /\ fn = "ecg_peaks" /\ pc = "done" /\ args.method = "error"
    /\ Len(args.cand) >= 1
    /\ ret = Raise("ValueError")

\* C2: a successful call of ecg_peaks or ppg_peaks returns a signal and a peak
\* vector that have the length of the input signal, and the peak vector holds
\* only the values 0 and 1, whichever supported method detected the peaks
C2_PeakVectorShape ==
    (fn \in {"ecg_peaks", "ppg_peaks"} /\ pc = "done") =>
        /\ (fn = "ppg_peaks" \/ args.method \in Methods) => ret.kind = "return"
        /\ ret.kind = "return" =>
              /\ Len(ret.value[1].data) = Len(args.signal.data)
              /\ Len(ret.value[2].data) = Len(args.signal.data)
              /\ \A i \in DOMAIN ret.value[2].data : ret.value[2].data[i] \in {0, 1}

\* two candidates were moved to the same local maximum: one beat in the vector
C2_Witness ==
    /\ fn = "ecg_peaks" /\ pc = "done" /\ ret.kind = "return"
    /\ args.find_local /\ Len(args.cand) = 2
    /\ SumSeq(ret.value[2].data) = 1
    /\ Len(ret.value[2].data) = DetectLen

(***************************************************************************)
(* systole.detection: rr_artefacts, as test_rr_artefacts calls it          *)
(***************************************************************************)
PeaksLen == 3
Flags == {"short", "long", "ectopic", "missed", "extra"}
\* what the classifier may decide of one interval
Verdicts == {{}, {"short"}, {"long", "ectopic"}, {"missed"}, {"extra"}}

\* the intervals, in samples, between the successive beats of a peak vector
BeatIntervals(peaks) ==
    LET idx == NpWhere(peaks)
    IN [i \in 1..(Len(idx) - 1) |-> idx[i + 1] - idx[i]]

\* rr_artefacts: the five flags of every interval of the series; verdict is what
\* the thresholds of the classifier decide of each interval of a series that is
\* no longer than the recording; a series of fewer than two intervals is not
\* classified
RrArtefacts(x, input_type, verdict) ==
    IF input_type \notin {"peaks", "rr_ms", "rr_s"} THEN Raise("ValueError")
    ELSE LET rr == IF input_type = "peaks" THEN BeatIntervals(x.data) ELSE x.data
         IN Return([k \in Flags |->
                      [i \in DOMAIN rr |-> Len(rr) >= 2 /\ k \in verdict[i]]])

InitArtefacts ==
    /\ fn = "test_rr_artefacts"
    /\ \E peaks \in UNION {[1..n -> {0, 1}] : n \in 0..PeaksLen},
          verdict \in [1..PeaksLen -> Verdicts] :
          args = [peaks |-> Arr(1, peaks), verdict |-> verdict]
    /\ loc = [rr_ms |-> Unbound, artefacts_ms |-> Unbound, artefacts_peaks |-> Unbound]
    /\ pc = "rr_ms"
    /\ log = <<>>
    /\ ret = NoReturn

\* rr_ms = np.diff(np.where(peaks)[0])
TestRrMs ==
    /\ fn = "test_rr_artefacts"
    /\ pc = "rr_ms"
    /\ loc' = [loc EXCEPT !.rr_ms = Arr(1, NpDiff(NpWhere(args.peaks.data)))]
    /\ pc' = "artefacts_ms"
    /\ UNCHANGED <<fn, args, log, ret>>

\* artefacts_ms = rr_artefacts(rr_ms, input_type="rr_ms")
TestArtefactsMs ==
    /\ fn = "test_rr_artefacts"
    /\ pc = "artefacts_ms"
    /\ LET out == RrArtefacts(loc.rr_ms, "rr_ms", args.verdict)
       IN /\ loc' = [loc EXCEPT !.artefacts_ms = out.value]
          /\ log' = log \o <<[op |-> "rr_artefacts", input_type |-> "rr_ms"]>>
    /\ pc' = "artefacts_peaks"
    /\ UNCHANGED <<fn, args, ret>>

\* artefacts_peaks = rr_artefacts(peaks, input_type="peaks")
TestArtefactsPeaks ==
    /\ fn = "test_rr_artefacts"
    /\ pc = "artefacts_peaks"
    /\ LET out == RrArtefacts(args.peaks, "peaks", args.verdict)
       IN /\ loc' = [loc EXCEPT !.artefacts_peaks = out.value]
          /\ log' = log \o <<[op |-> "rr_artefacts", input_type |-> "peaks"]>>
    /\ pc' = "done"
    /\ UNCHANGED <<fn, args, ret>>

NextArtefacts ==
    \/ TestRrMs
    \/ TestArtefactsMs
    \/ TestArtefactsPeaks

SpecArtefacts == InitArtefacts /\ [][NextArtefacts]_vars

BeatCount == Cardinality({i \in DOMAIN args.peaks.data : args.peaks.data[i] # 0})
Classified == fn = "test_rr_artefacts" /\ pc = "done"

\* C3 as stated: the mapping rr_artefacts returns has the sequences short, long,
\* ectopic, missed and extra, each of length beat count minus 1, whether the
\* recording was passed as RR intervals or as a peak vector
C3_LengthBeatsMinusOne ==
    Classified =>
        /\ DOMAIN loc.artefacts_ms = {"short", "long", "ectopic", "missed", "extra"}
        /\ DOMAIN loc.artefacts_peaks = {"short", "long", "ectopic", "missed", "extra"}
        /\ \A k \in {"short", "long", "ectopic", "missed", "extra"} :
              /\ Len(loc.artefacts_ms[k]) = BeatCount - 1
              /\ Len(loc.artefacts_peaks[k]) = BeatCount - 1

\* C3 amended: each of the five sequences has the length of the RR series, which
\* is beat count minus 1 for a recording with a beat and 0 for one without, and
\* it is the same for both input types
C3_LengthIsIntervals ==
    Classified =>
        /\ DOMAIN loc.artefacts_ms = {"short", "long", "ectopic", "missed", "extra"}
        /\ DOMAIN loc.artefacts_peaks = {"short", "long", "ectopic", "missed", "extra"}
        /\ \A k \in {"short", "long", "ectopic", "missed", "extra"} :
              /\ Len(loc.artefacts_ms[k]) = IF BeatCount >= 1 THEN BeatCount - 1 ELSE 0
              /\ Len(loc.artefacts_peaks[k]) = Len(loc.artefacts_ms[k])
              /\ Len(loc.artefacts_ms[k]) = Len(loc.rr_ms.data)

\* a recording of three beats classified from both inputs, with a flagged interval
C3_Witness ==
    /\ Classified /\ BeatCount = 3
    /\ Len(loc.artefacts_ms.missed) = 2 /\ Len(loc.artefacts_peaks.missed) = 2
    /\ loc.artefacts_peaks.missed[2] /\ loc.artefacts_ms.missed[2]

(***************************************************************************)
(* Baseline correction of the trials plot_evoked has built                 *)
(***************************************************************************)
\* the triggers of condition c whose trials are retained, in their order
RetainedTriggers(c) == SelectSeq(TriggersOf(c), WindowUsable)
\* the samples of the rate series in the window of trigger t
OwnWindow(t) ==
    [k \in 1..(WindowStop - WindowStart) |-> loc.rr.data[t + WindowStart + k]]
\* the columns of a window that lie in the reference interval, or at the
\* reference point
ReferenceColumns ==
    {k \in 1..(WindowStop - WindowStart) :
        LET at == WindowStart + k - 1
            ref == args.apply_baseline
        IN IF ref.tag = "point" THEN at = RoundSamples(ref.t, args.sfreq)
           ELSE /\ at >= RoundSamples(ref.a, args.sfreq)
                /\ at < RoundSamples(ref.b, args.sfreq)}
RECURSIVE Total(_, _)
Total(row, cols) ==
    IF cols = {} THEN 0
    ELSE LET k == CHOOSE k \in cols : TRUE IN row[k] + Total(row, cols \ {k})

\* C11: every retained trial is its own window less the mean of that window's
\* samples in the reference interval (or its sample at the reference point):
\* the corrected trial is computed from the samples of its own window only, and
\* after the correction the mean of its reference samples is 0; with the values
\* held as numerators over (reference samples) x (denominator of the series)
C11_BaselinePerTrial ==
    (EpochsBuilt /\ ~IsNone(args.apply_baseline)) =>
        \A c \in DOMAIN loc.epochs.data :
           LET rows == loc.epochs.data[c].data
               n == Cardinality(ReferenceColumns)
           IN /\ Len(rows) = Len(RetainedTriggers(c))
              /\ loc.epochs.data[c].den = n * loc.rr.den
              /\ \A r \in DOMAIN rows :
                    LET own == OwnWindow(RetainedTriggers(c)[r])
                    IN /\ \A k \in DOMAIN rows[r] :
                             rows[r][k] = n * own[k] - Total(own, ReferenceColumns)
                       /\ Total(rows[r], ReferenceColumns) = 0

\* two trials of one condition, cut from different samples, corrected over an
\* interval of two samples before the trigger
C11_Witness ==
    /\ EpochsBuilt /\ ~IsNone(args.apply_baseline)
    /\ args.apply_baseline.tag = "interval"
    /\ Cardinality(ReferenceColumns) = 2
    /\ \E c \in DOMAIN loc.epochs.data :
          /\ Len(loc.epochs.data[c].data) = 2
          /\ OwnWindow(RetainedTriggers(c)[1]) # OwnWindow(RetainedTriggers(c)[2])
          /\ \E k \in DOMAIN loc.epochs.data[c].data[1] :
                loc.epochs.data[c].data[1][k] # 0

(***************************************************************************)
(* systole.detection: interpolate_clipping, as the test calls it           *)
(***************************************************************************)
ClipLen == 4
\* the value the test pins the first and the last sample at
ClipMax == 255
ClipMin == 0
Clipped(v) == v = ClipMin \/ v = ClipMax

\* a clipped run that touches the first or the last sample is not repaired: the
\* interpolation has no neighbour on one side and fails
InterpolateClippingTwoSided(signal) ==
    LET sig == signal.data
        good == {i \in DOMAIN sig : ~Clipped(sig[i])}
    IN IF signal.ndim > 1 \/ (sig # <<>> /\ (1 \notin good \/ Len(sig) \notin good))
       THEN Raise("ValueError")
       ELSE Return(NpAsarray(signal))

\* interpolate_clipping: every sample of a clipped run is replaced by the value
\* on the line through the nearest samples that are not clipped, or by the
\* nearest of them when the run touches an end of the signal; the values are
\* numerators over the least common multiple of the widths of the gaps
InterpolateClipping(signal) ==
    LET sig == signal.data
        good == {i \in DOMAIN sig : ~Clipped(sig[i])}
        left(i) == IF \E j \in good : j < i
                   THEN CHOOSE j \in good : j < i /\ \A k \in good : k < i => k <= j
                   ELSE 0
        right(i) == IF \E j \in good : j > i
                    THEN CHOOSE j \in good : j > i /\ \A k \in good : k > i => k >= j
                    ELSE 0
        inner == {i \in DOMAIN sig \ good : left(i) # 0 /\ right(i) # 0}
        den == LcmSeq(InOrder({right(i) - left(i) : i \in inner}))
        value(i) ==
            IF i \in inner
            THEN (sig[left(i)] * (right(i) - i) + sig[right(i)] * (i - left(i)))
                 * (den \div (right(i) - left(i)))
            ELSE IF i \in good \/ good = {} THEN sig[i] * den
            ELSE IF left(i) # 0 THEN sig[left(i)] * den
            ELSE sig[right(i)] * den
    IN IF signal.ndim > 1 THEN Raise("ValueError")
       ELSE Return(ArrQ(1, [i \in DOMAIN sig |-> value(i)], signal.den * den))

\* an array or a list of samples, or an array of two dimensions
SignalsClipped ==
    LET samples == UNION {[1..n -> {ClipMin, 100, 104, ClipMax}] : n \in 0..ClipLen}
    IN {Arr(1, x) : x \in samples} \cup {PyList(1, x) : x \in samples}
       \cup {Arr(2, <<x, x>>) : x \in samples}

InitClipping ==
    /\ fn = "interpolate_clipping"
    /\ \E x \in SignalsClipped : args = [signal |-> x]
    /\ loc = <<>>
    /\ pc = "call"
    /\ log = <<>>
    /\ ret = NoReturn

\* clean_signal = interpolate_clipping(...)
InterpolateClippingCall ==
    /\ fn = "interpolate_clipping"
    /\ pc = "call"
    /\ ret' = InterpolateClipping(args.signal)
    /\ pc' = "done"
    /\ UNCHANGED <<fn, args, loc, log>>

NextClipping == InterpolateClippingCall

SpecClipping == InitClipping /\ [][NextClipping]_vars

Conditioned == fn = "interpolate_clipping" /\ pc = "done" /\ args.signal.ndim = 1
HasClippedRun == \E i \in DOMAIN args.signal.data : Clipped(args.signal.data[i])

\* C12: interpolate_clipping on a signal of one dimension completes, also when a
\* clipped run touches the first or the last sample; its result has the length
\* of the input and every sample outside a clipped run has the value it had, so
\* the result of a signal without a clipped run is the signal
C12_ClippingFrame ==
    Conditioned =>
        /\ ret.kind = "return"
        /\ ret.kind = "return" =>
              /\ Len(ret.value.data) = Len(args.signal.data)
              /\ ret.value.den >= 1
              /\ \A i \in DOMAIN args.signal.data :
                    ~Clipped(args.signal.data[i]) =>
                       ret.value.data[i] = args.signal.data[i] * ret.value.den
              /\ ~HasClippedRun => (ret.value.data = args.signal.data /\ ret.value.den = 1)

\* the first and the last sample are clipped, a sample between them is not
C12_Witness ==
    /\ Conditioned /\ ret.kind = "return"
    /\ Len(args.signal.data) = ClipLen
    /\ args.signal.data[1] = ClipMax /\ args.signal.data[ClipLen] = ClipMax
    /\ \E i \in DOMAIN args.signal.data :
          ~Clipped(args.signal.data[i]) /\ ret.value.data[i] = args.signal.data[i]

(***************************************************************************)
(* plot_evoked: which of epochs, signal and rr is used                     *)
(***************************************************************************)
Called(op) == \E i \in DOMAIN log : log[i].op = op
\* the supplied epochs as a list of condition arrays
SuppliedConditions ==
    IF args.epochs.tag = "array" THEN PyList(3, <<args.epochs>>) ELSE args.epochs
\* the peaks the detector of the modality finds in the supplied signal
PeaksOfSignal ==
    IF args.modality = "ppg" THEN PpgPeaks(NpAsarray(args.signal), args.sfreq).value[2]
    ELSE EcgPeaks(NpAsarray(args.signal), args.sfreq, DefaultMethod, FALSE).value[2]
\* the rate series of the detected peaks and the one of the rr argument
RateOfSignal == HeartRate(PeaksOfSignal, args.kind, args.unit, "peaks", DefaultSfreq).value[1]
RateOfRr ==
    HeartRate(NpAsarray(args.rr), args.kind, args.unit, args.input_type, args.sfreq).value[1]
GeneratedLabels(n) == PyList(1, [i \in 1..n |-> <<"Condition", i>>])

\* C14: epochs, signal and rr are used in a fixed order. With epochs supplied,
\* to_epochs is never called and the arrays handed to the plot are the supplied
\* ones (a single 2-D array as a list of one condition, decimated when decim is
\* set). With a signal supplied (1-D, modality ppg or ecg), the peaks are
\* detected from the signal before the conversion and the rate series is the one
\* of these peaks, whatever rr is. The rr argument is converted (heart_rate
\* called with no detection before it) only when no signal is supplied, and then
\* the rate series is the one of rr. With no labels supplied, the labels are
\* "Condition 1" .. "Condition n" for the n condition arrays
C14_InputPrecedence ==
    fn = "plot_evoked" =>
       /\ ~IsNone(args.epochs) =>
             /\ ~Called("to_epochs")
             /\ pc \in {"labels", "time", "decim"} => loc.epochs = SuppliedConditions
             /\ (pc = "done" /\ ret.kind = "return") =>
                   ret.value.epochs.data =
                      [c \in DOMAIN SuppliedConditions.data |->
                         IF IsNone(args.decim) THEN SuppliedConditions.data[c]
                         ELSE StrideColumns(SuppliedConditions.data[c], args.decim.data)]
       /\ (~IsNone(args.signal) /\ pc = "epoching") =>
             /\ Called(args.modality \o "_peaks")
             /\ log[1].op \in Detection
             /\ loc.rr = RateOfSignal
       /\ (Called("heart_rate") /\ ~\E op \in Detection : Called(op)) =>
             /\ IsNone(args.signal)
             /\ ~IsNone(args.rr)
             /\ pc = "epoching" => loc.rr = RateOfRr
       /\ (IsNone(args.signal) /\ IsNone(args.rr)) => ~Called("heart_rate")
       /\ (IsNone(args.labels) /\ pc \in {"time", "decim", "dispatch"}) =>
             loc.labels = GeneratedLabels(Len(loc.epochs.data))
       /\ (IsNone(args.labels) /\ pc = "done" /\ ret.kind = "return") =>
             ret.value.labels = GeneratedLabels(Len(ret.value.epochs.data))

\* a call with a signal and an rr argument whose rate series differ has been
\* plotted from two conditions built from the signal, under generated labels
C14_Witness ==
    /\ fn = "plot_evoked" /\ pc = "done" /\ ret.kind = "return"
    /\ IsNone(args.epochs) /\ ~IsNone(args.signal) /\ ~IsNone(args.rr)
    /\ Called("to_epochs")
    /\ RateOfSignal # RateOfRr
    /\ ret.value.labels = GeneratedLabels(2)

(***************************************************************************)
(* The tables: the summary dataframe and the series                        *)
(***************************************************************************)
DomainInvoked == \E i \in DOMAIN log : log[i].op \in Range(Domains)
\* every cell of the data dictionary is read from the supplied dataframe
CellsOfGiven ==
    \A col \in DOMAIN loc.data : \A i \in DOMAIN loc.data[col] :
       loc.data[col][i] # None => loc.data[col][i].of = "given"

\* C15: in time_table, frequency_table and nonlinear_table, with a summary
\* dataframe supplied the HRV domain function is not invoked and the table is
\* read from the supplied dataframe whatever rr and input_type are; with no
\* summary dataframe and rr or input_type None the call ends with a ValueError
\* with no HRV computation, no data dictionary and no table formatting
C15_SummaryPrecedence ==
    fn \in TableFns =>
       /\ ~IsNone(args.df) =>
             /\ ~DomainInvoked
             /\ loc.df = args.df
             /\ loc.data # Unbound => CellsOfGiven
       /\ (IsNone(args.df) /\ (IsNone(args.rr) \/ IsNone(args.input_type))
           /\ pc # "summary") =>
             /\ pc = "done"
             /\ ret = Raise("ValueError")
             /\ log = <<>>
             /\ loc.data = Unbound
             /\ loc.table = Unbound

\* a table has been returned from a supplied dataframe in a call that also had a
\* series and an input type no domain function accepts
C15_Witness ==
    /\ fn \in TableFns /\ pc = "done" /\ ret.kind = "return"
    /\ ~IsNone(args.df) /\ ~IsNone(args.rr)
    /\ ~IsNone(args.input_type) /\ args.input_type.data \notin InputTypes
    /\ CellsOfGiven

(***************************************************************************)
(* systole.detection: the rules of the artefact classifier                 *)
(***************************************************************************)
MaxContext == 2
RrLen == 4

\* the flags the rules give every interval of the series rr. The local reference
\* of an interval is the mean of the (at most w) intervals before it; an interval
\* is short or long when it is more than tol per cent below or above the
\* reference, ectopic when it is short and the next is long or it is long and the
\* one before is short, missed when it is within tol per cent of the reference
\* of a multiple (from kmin) of the reference, extra when it is within tol per
\* cent of the reference of half the reference. The first interval has no
\* reference and no flag
ClassificationFrom(rr, tol, w, kmin) ==
    LET before(i) == {j \in DOMAIN rr : j < i /\ j >= i - w}
        n(i) == Cardinality(before(i))
        ref(i) == SumOver(rr, before(i))
        dist(a, b) == IF a >= b THEN a - b ELSE b - a
        short(i) == i > 1 /\ 100 * n(i) * rr[i] < (100 - tol) * ref(i)
        long(i) == i > 1 /\ 100 * n(i) * rr[i] > (100 + tol) * ref(i)
        ectopic(i) == \/ short(i) /\ i < Len(rr) /\ long(i + 1)
                      \/ long(i) /\ i > 1 /\ short(i - 1)
        missed(i) == /\ i > 1
                     /\ \E k \in kmin..3 :
                           100 * dist(n(i) * rr[i], k * ref(i)) <= tol * ref(i)
        extra(i) == i > 1 /\ 100 * dist(2 * n(i) * rr[i], ref(i)) <= 2 * tol * ref(i)
    IN [i \in DOMAIN rr |->
          {f \in Flags : \/ f = "short" /\ short(i)
                         \/ f = "long" /\ long(i)
                         \/ f = "ectopic" /\ ectopic(i)
                         \/ f = "missed" /\ missed(i)
                         \/ f = "extra" /\ extra(i)}]

\* an interval about as long as the reference counts as a multiple of it
ClassificationAnyMultiple(rr, tol, w) == ClassificationFrom(rr, tol, w, 1)

\* the multiples of a missed beat start at 2
Classification(rr, tol, w) == ClassificationFrom(rr, tol, w, 2)

InitClassifier ==
    /\ fn = "rr_artefacts"
    /\ \E rr \in UNION {[1..n -> {400, 800, 1200, 1600, 2400}] : n \in 0..RrLen},
          tol \in {10, 25, 40}, w \in 1..MaxContext :
          args = [rr |-> Arr(1, rr), input_type |-> "rr_ms", tol |-> tol, w |-> w]
    /\ loc = <<>>
    /\ pc = "call"
    /\ log = <<>>
    /\ ret = NoReturn

\* rr_artefacts(rr, input_type="rr_ms")
RrArtefactsCall ==
    /\ fn = "rr_artefacts"
    /\ pc = "call"
    /\ ret' = RrArtefacts(args.rr, args.input_type,
                          Classification(args.rr.data, args.tol, args.w))
    /\ pc' = "done"
    /\ UNCHANGED <<fn, args, loc, log>>

NextClassifier == RrArtefactsCall

SpecClassifier == InitClassifier /\ [][NextClassifier]_vars

====
